---- MODULE Spec2Model ----
(***************************************************************************)
(* build.js, the ASCRI static site generator: papers.json is loaded into   *)
(* `papers` and `programs`, and build() writes the paper pages, the papers *)
(* index, the programme pages, the programmes index, the sitemap and the   *)
(* RSS feed, in that order.                                                *)
(*                                                                         *)
(* A JavaScript string is a sequence of one-character strings, so that     *)
(* replace(), substring(), split() and the regular expressions of the      *)
(* source are computed character by character.  A JavaScript object is a   *)
(* record [order, val]: `order` lists its own string keys in creation      *)
(* order and `val` maps each own key to its value; OwnKeys gives the order *)
(* in which Object.keys / Object.entries enumerate them.                   *)
(***************************************************************************)
EXTENDS Integers, Sequences, FiniteSets, TLC

VARIABLES
    papers,     \* data.papers, the list of paper records as loaded
    programs,   \* data.programs, an object: programme key -> {index, title}
    pc,         \* position of build(): the next statement group to run
    idx,        \* loop position inside the two for-loops of build()
    dirs,       \* directories that exist under PUBLIC
    fs,         \* files written under PUBLIC: path -> content
    grouped,    \* `grouped` of buildPapersIndexPage, as last computed
    counts,     \* `counts` of buildProgrammesIndexPage, as last computed
    call,       \* the formatting utility last applied, with arguments and result
    error       \* the exception that ended the process, if one was thrown

vars == <<papers, programs, pc, idx, dirs, fs, grouped, counts, call, error>>

\* ---------------------------------------------------------------------------
\* Bounds of the model
\* ---------------------------------------------------------------------------

\* Longest `papers` list loaded.
MaxPapers == 2

\* Longest abstract text given to truncateAbstract.
MaxLen == 5

\* Largest maxLen given to truncateAbstract.
MaxLimit == 4

\* Longest string given to escapeHtml / escapeXml.
MaxEscLen == 5

\* ---------------------------------------------------------------------------
\* JavaScript values
\* ---------------------------------------------------------------------------

\* The value `undefined`: a one-element sequence whose element is not a single
\* character, hence different from every string.
undefined == <<"undefined">>

\* Truthiness of a string-or-undefined value, as tested by `!str`, `a || b`.
Truthy(v) == v # undefined /\ v # <<>>

\* The own properties of Object.prototype that every object literal and every
\* JSON.parse'd object inherits (those with function values).
ObjectPrototypeKeys ==
    { <<"c","o","n","s","t","r","u","c","t","o","r">>,
      <<"t","o","S","t","r","i","n","g">>,
      <<"v","a","l","u","e","O","f">> }

Digits == <<"0","1","2","3","4","5","6","7","8","9">>

IsDigit(c) == \E d \in 1..10 : Digits[d] = c

DigitValue(c) == (CHOOSE d \in 1..10 : Digits[d] = c) - 1

\* Decimal value of a string of digits.
RECURSIVE ToNumber(_)
ToNumber(str) ==
    IF str = <<>> THEN 0
    ELSE 10 * ToNumber(SubSeq(str, 1, Len(str) - 1)) + DigitValue(str[Len(str)])

\* A property key that is an array index (a canonical numeric string):
\* OrdinaryOwnPropertyKeys lists these first, in ascending numeric order.
IsArrayIndex(key) ==
    /\ key # <<>>
    /\ \A p \in 1..Len(key) : IsDigit(key[p])
    /\ (Len(key) = 1 \/ key[1] # "0")

\* The keys of `seq` that are (wantIndex) or are not array indices, in order.
RECURSIVE SelectKeys(_, _)
SelectKeys(seq, wantIndex) ==
    IF seq = <<>> THEN <<>>
    ELSE (IF IsArrayIndex(Head(seq)) = wantIndex THEN <<Head(seq)>> ELSE <<>>)
         \o SelectKeys(Tail(seq), wantIndex)

\* Array-index keys in ascending numeric order.
RECURSIVE AscendingIndexKeys(_)
AscendingIndexKeys(keys) ==
    IF keys = {} THEN <<>>
    ELSE LET least == CHOOSE k \in keys : \A o \in keys : ToNumber(k) <= ToNumber(o)
         IN  <<least>> \o AscendingIndexKeys(keys \ {least})

\* Object.keys(obj): array-index keys ascending, then the other string keys in
\* creation order.
OwnKeys(obj) ==
    LET indexKeys == SelectKeys(obj.order, TRUE)
    IN  AscendingIndexKeys({indexKeys[p] : p \in 1..Len(indexKeys)})
        \o SelectKeys(obj.order, FALSE)

HasOwn(obj, key) == key \in DOMAIN obj.val

\* ---------------------------------------------------------------------------
\* Config
\* ---------------------------------------------------------------------------

SITE_URL == <<"h","t","t","p","s",":","/","/","s","y","s","t","e","m","s",".","a","c">>

papersDir == <<"p","a","p","e","r","s">>

programmesDir == <<"p","r","o","g","r","a","m","m","e","s">>

\* path.join(dir, name) below PUBLIC, for a name without path separators.
PathJoin(dir, name) == dir \o <<"/">> \o name

DotHtml == <<".","h","t","m","l">>

IndexHtml == <<"i","n","d","e","x">> \o DotHtml

SitemapXml == <<"s","i","t","e","m","a","p",".","x","m","l">>

FeedXml == <<"f","e","e","d",".","x","m","l">>

\* ---------------------------------------------------------------------------
\* Utilities
\* ---------------------------------------------------------------------------

\* str.replace(/c/g, rep) for a one-character pattern c.
RECURSIVE ReplaceAll(_, _, _)
ReplaceAll(str, ch, rep) ==
    IF str = <<>> THEN <<>>
    ELSE (IF Head(str) = ch THEN rep ELSE <<Head(str)>>)
         \o ReplaceAll(Tail(str), ch, rep)

escapeHtmlNoApostrophe(str) ==
    IF ~Truthy(str) THEN <<>>
    ELSE ReplaceAll(ReplaceAll(ReplaceAll(ReplaceAll(str,
            "&", <<"&","a","m","p",";">>),
            "<", <<"&","l","t",";">>),
            ">", <<"&","g","t",";">>),
            "\"", <<"&","q","u","o","t",";">>)

escapeHtml(str) ==
    IF ~Truthy(str) THEN <<>>
    ELSE ReplaceAll(ReplaceAll(ReplaceAll(ReplaceAll(ReplaceAll(str,
            "&", <<"&","a","m","p",";">>),
            "<", <<"&","l","t",";">>),
            ">", <<"&","g","t",";">>),
            "\"", <<"&","q","u","o","t",";">>),
            "'", <<"&","#","0","3","9",";">>)

escapeXml(str) ==
    IF ~Truthy(str) THEN <<>>
    ELSE ReplaceAll(ReplaceAll(ReplaceAll(ReplaceAll(ReplaceAll(str,
            "&", <<"&","a","m","p",";">>),
            "<", <<"&","l","t",";">>),
            ">", <<"&","g","t",";">>),
            "\"", <<"&","q","u","o","t",";">>),
            "'", <<"&","a","p","o","s",";">>)

\* \s of the regular expression in truncateAbstract.
IsSpace(c) == c \in {" ", "\t", "\n"}

\* str.replace(/\s+\S*$/, ''): the leftmost position from which the rest of the
\* string is a run of whitespace followed by non-whitespace up to the end is
\* where the match starts; everything from there on is removed.
StripTrailingWord(str) ==
    LET starts == { p \in 1..Len(str) :
                      /\ IsSpace(str[p])
                      /\ \E q \in p..Len(str) :
                            /\ \A r \in p..q : IsSpace(str[r])
                            /\ \A r \in (q + 1)..Len(str) : ~IsSpace(str[r]) }
    IN  IF starts = {} THEN str
        ELSE SubSeq(str, 1, (CHOOSE p \in starts : \A o \in starts : p <= o) - 1)

truncateAbstractStrict(text, maxLen) ==
    IF ~Truthy(text) THEN <<>>
    ELSE IF Len(text) < maxLen THEN text
    ELSE StripTrailingWord(SubSeq(text, 1, maxLen)) \o <<".",".",".">>

truncateAbstract(text, maxLen) ==
    IF ~Truthy(text) THEN <<>>
    ELSE IF Len(text) <= maxLen THEN text
    ELSE StripTrailingWord(SubSeq(text, 1, maxLen)) \o <<".",".",".">>

\* new Date("YYYY-MM-DD"), in days since 1970-01-01 (the source's value is this
\* number times 86400000 ms; the comparator only uses differences).
DateValue(dateStr) ==
    LET y0  == ToNumber(SubSeq(dateStr, 1, 4))
        m   == ToNumber(SubSeq(dateStr, 6, 7))
        d   == ToNumber(SubSeq(dateStr, 9, 10))
        y   == IF m <= 2 THEN y0 - 1 ELSE y0
        era == y \div 400
        yoe == y - era * 400
        mp  == IF m > 2 THEN m - 3 ELSE m + 9
        doy == (153 * mp + 2) \div 5 + d - 1
        doe == yoe * 365 + yoe \div 4 - yoe \div 100 + doy
    IN  era * 146097 + doe - 719468

sortByDateAsc(a, b) == DateValue(a.date) - DateValue(b.date)

sortByDateDesc(a, b) == DateValue(b.date) - DateValue(a.date)

\* arr.sort(sortByDateDesc): Array.prototype.sort is stable; each element is
\* inserted behind the elements the comparator does not place after it.
RECURSIVE ArraySort(_)
ArraySort(arr) ==
    IF arr = <<>> THEN <<>>
    ELSE LET init   == ArraySort(SubSeq(arr, 1, Len(arr) - 1))
             x      == arr[Len(arr)]
             before == { p \in 0..Len(init) :
                           \A q \in 1..p : sortByDateDesc(init[q], x) <= 0 }
             at     == CHOOSE p \in before : \A o \in before : o <= p
         IN  SubSeq(init, 1, at) \o <<x>> \o SubSeq(init, at + 1, Len(init))

\* ---------------------------------------------------------------------------
\* Aggregation
\* ---------------------------------------------------------------------------

\* The loop `for (const paper of paperList)` of groupByProgramme.  `grouped[key]`
\* finds an own bucket, or a function inherited from Object.prototype (truthy,
\* and without a push method: TypeError), or undefined (a bucket is created).
RECURSIVE PushPapers(_, _)
PushPapers(obj, paperList) ==
    IF paperList = <<>> \/ obj.threw THEN obj
    ELSE LET paper == Head(paperList)
             key   == paper.program
         IN  IF HasOwn(obj, key)
             THEN PushPapers([obj EXCEPT !.val[key] = Append(@, paper)], Tail(paperList))
             ELSE IF key \in ObjectPrototypeKeys
             THEN [obj EXCEPT !.threw = TRUE]
             ELSE PushPapers([obj EXCEPT !.order = Append(@, key),
                                         !.val = (key :> <<paper>>) @@ @],
                             Tail(paperList))

groupByProgramme(paperList) ==
    LET programOrder == OwnKeys(programs)
        empty  == [order |-> programOrder,
                   val   |-> [key \in {programOrder[p] : p \in 1..Len(programOrder)} |-> <<>>],
                   threw |-> FALSE]
        pushed == PushPapers(empty, paperList)
    IN  [pushed EXCEPT !.val = [key \in DOMAIN pushed.val |-> ArraySort(pushed.val[key])]]

\* A number held in `counts`; counts[key]++ on an inherited function stores NaN.
Num(n) == [nan |-> FALSE, n |-> n]

NaN == [nan |-> TRUE, n |-> 0]

\* The loop `for (const paper of papers)` of paperCountByProgramme.
RECURSIVE CountPapers(_, _)
CountPapers(obj, paperList) ==
    IF paperList = <<>> THEN obj
    ELSE LET key == Head(paperList).program
         IN  IF HasOwn(obj, key)
             THEN CountPapers([obj EXCEPT !.val[key] = IF @.nan THEN NaN ELSE Num(@.n + 1)],
                              Tail(paperList))
             ELSE IF key \in ObjectPrototypeKeys
             THEN CountPapers([obj EXCEPT !.order = Append(@, key),
                                          !.val = (key :> NaN) @@ @],
                              Tail(paperList))
             ELSE CountPapers(obj, Tail(paperList))

\* As CountPapers, without the `!== undefined` guard: undefined++ stores NaN.
RECURSIVE CountPapersUnguarded(_, _)
CountPapersUnguarded(obj, paperList) ==
    IF paperList = <<>> THEN obj
    ELSE LET key == Head(paperList).program
         IN  IF HasOwn(obj, key)
             THEN CountPapersUnguarded(
                      [obj EXCEPT !.val[key] = IF @.nan THEN NaN ELSE Num(@.n + 1)],
                      Tail(paperList))
             ELSE CountPapersUnguarded([obj EXCEPT !.order = Append(@, key),
                                                   !.val = (key :> NaN) @@ @],
                                       Tail(paperList))

ZeroCounts ==
    [order |-> OwnKeys(programs),
     val   |-> [key \in DOMAIN programs.val |-> Num(0)]]

paperCountByProgrammeUnguarded == CountPapersUnguarded(ZeroCounts, papers)

paperCountByProgramme == CountPapers(ZeroCounts, papers)

\* ---------------------------------------------------------------------------
\* Citation
\* ---------------------------------------------------------------------------

UpperCase == <<"A","B","C","D","E","F","G","H","I","J","K","L","M",
               "N","O","P","Q","R","S","T","U","V","W","X","Y","Z">>

LowerCase == <<"a","b","c","d","e","f","g","h","i","j","k","l","m",
               "n","o","p","q","r","s","t","u","v","w","x","y","z">>

toLowerCase(str) ==
    [p \in 1..Len(str) |->
        IF \E u \in 1..26 : UpperCase[u] = str[p]
        THEN LowerCase[CHOOSE u \in 1..26 : UpperCase[u] = str[p]]
        ELSE str[p]]

\* str.split(' ').pop(): what follows the last space.
LastWord(str) ==
    LET spaces == { p \in 1..Len(str) : str[p] = " " }
    IN  IF spaces = {} THEN str
        ELSE SubSeq(str, (CHOOSE p \in spaces : \A o \in spaces : o <= p) + 1, Len(str))

bibtexKey(paper) ==
    LET firstAuthor == IF paper.authors # <<>> /\ Truthy(paper.authors[1])
                       THEN paper.authors[1]
                       ELSE <<"U","n","k","n","o","w","n">>
        lastName == LastWord(firstAuthor)
        year     == SubSeq(paper.date, 1, 4)
        slug     == ReplaceAll(paper.id, "-", <<"_">>)
    IN  toLowerCase(lastName) \o year \o <<"_">> \o slug

\* ---------------------------------------------------------------------------
\* Programme lookups
\* ---------------------------------------------------------------------------

\* `programs[programKey]` is truthy: an own entry, or a function inherited from
\* Object.prototype.
ProgramFound(programKey) ==
    HasOwn(programs, programKey) \/ programKey \in ObjectPrototypeKeys

\* An inherited function has no `title` property: p.title is undefined.
programTitle(programKey) ==
    IF HasOwn(programs, programKey) THEN programs.val[programKey].title
    ELSE IF programKey \in ObjectPrototypeKeys THEN undefined
    ELSE programKey

programIndex(programKey) ==
    IF HasOwn(programs, programKey) THEN programs.val[programKey].index
    ELSE IF programKey \in ObjectPrototypeKeys THEN undefined
    ELSE <<>>

paperUrl(paper) == <<"/","p","a","p","e","r","s","/">> \o paper.id

programmeUrl(programKey) ==
    <<"/","p","r","o","g","r","a","m","m","e","s","/">> \o programKey

CanonicalHrefRaw(canonicalUrl) ==
    IF Truthy(canonicalUrl) THEN canonicalUrl ELSE SITE_URL

\* <link rel="canonical" href="${escapeHtml(canonicalUrl)}"> of getHeadHtml.
CanonicalHref(canonicalUrl) ==
    escapeHtml(IF Truthy(canonicalUrl) THEN canonicalUrl ELSE SITE_URL)

\* ---------------------------------------------------------------------------
\* Page generators: each page is the record of what the generator puts in it
\* ---------------------------------------------------------------------------

\* An optional array field: absent from the record, or an array of items.
NoArray == [defined |-> FALSE, items |-> <<>>]

Array(items) == [defined |-> TRUE, items |-> items]

PDF_BASE == <<"h","t","t","p","s",":","/","/","f","a","r","z","u","l","l","a",".","o","r","g","/","p","a","p","e","r","s">>

DOI_BASE == <<"h","t","t","p","s",":","/","/","d","o","i",".","o","r","g","/">>

pdfUrl(paper) == IF ~Truthy(paper.pdf) THEN undefined ELSE PDF_BASE \o <<"/">> \o paper.pdf

doiUrl(paper) == IF ~Truthy(paper.doi) THEN undefined ELSE DOI_BASE \o paper.doi

\* The `tags` object of papers.json: tag key -> display label.
tags == [order |-> << <<"t">> >>, val |-> (<<"t">> :> <<"T","&","t">>)]

\* tags[t] || t
TagLabel(t) == IF HasOwn(tags, t) /\ Truthy(tags.val[t]) THEN tags.val[t] ELSE t

\* The action buttons in the order the code pushes them, each with the
\* (escaped) target it links to.
actionButtonsDoiFirst(paper) ==
    (IF Truthy(paper.doi)
       THEN << [label |-> "DOI", href |-> escapeHtml(doiUrl(paper))] >> ELSE <<>>)
    \o (IF Truthy(paper.pdf)
          THEN << [label |-> "Download PDF", href |-> escapeHtml(pdfUrl(paper))] >> ELSE <<>>)
    \o (IF Truthy(paper.github)
          THEN << [label |-> "GitHub", href |-> escapeHtml(paper.github)] >> ELSE <<>>)
    \o (IF Truthy(paper.dashboard)
          THEN << [label |-> "Dashboard", href |-> escapeHtml(paper.dashboard)] >> ELSE <<>>)

actionButtons(paper) ==
    (IF Truthy(paper.pdf)
       THEN << [label |-> "Download PDF", href |-> escapeHtml(pdfUrl(paper))] >> ELSE <<>>)
    \o (IF Truthy(paper.doi)
          THEN << [label |-> "DOI", href |-> escapeHtml(doiUrl(paper))] >> ELSE <<>>)
    \o (IF Truthy(paper.github)
          THEN << [label |-> "GitHub", href |-> escapeHtml(paper.github)] >> ELSE <<>>)
    \o (IF Truthy(paper.dashboard)
          THEN << [label |-> "Dashboard", href |-> escapeHtml(paper.dashboard)] >> ELSE <<>>)

\* Each optional part of the page is the sequence of the elements emitted for
\* it: empty when the part is omitted.
buildPaperPage(paper) ==
    [kind      |-> "paper",
     id        |-> paper.id,
     canonical |-> CanonicalHref(SITE_URL \o paperUrl(paper)),
     programme |-> [href  |-> programmeUrl(paper.program),
                    index |-> escapeHtml(programIndex(paper.program)),
                    title |-> escapeHtml(programTitle(paper.program))],
     actions   |-> actionButtons(paper),
     abstract  |-> IF Truthy(paper.abstract)
                     THEN << escapeHtml(paper.abstract) >> ELSE <<>>,
     bibtexId  |-> bibtexKey(paper),
     tags      |-> IF paper.tags.defined /\ Len(paper.tags.items) # 0
                     THEN << [t \in 1..Len(paper.tags.items) |->
                                escapeHtml(TagLabel(paper.tags.items[t]))] >>
                     ELSE <<>>]

\* The cards of one list of papers (papers index section, programme page).
PaperCards(paperList) ==
    [p \in 1..Len(paperList) |->
        [href |-> paperUrl(paperList[p]), date |-> paperList[p].date]]

\* The same loop without the `if (!prog) continue` test.
RECURSIVE IndexSectionsNoProgCheck(_, _)
IndexSectionsNoProgCheck(obj, keys) ==
    IF keys = <<>> THEN <<>>
    ELSE LET programKey == Head(keys)
             rest == IndexSectionsNoProgCheck(obj, Tail(keys))
         IN  IF obj.val[programKey] = <<>> THEN rest
             ELSE << [programKey |-> programKey,
                      index |-> escapeHtml(programIndex(programKey)),
                      title |-> escapeHtml(programTitle(programKey)),
                      cards |-> PaperCards(obj.val[programKey])] >> \o rest

\* The loop over Object.entries(grouped) of buildPapersIndexPage.
RECURSIVE IndexSections(_, _)
IndexSections(obj, keys) ==
    IF keys = <<>> THEN <<>>
    ELSE LET programKey == Head(keys)
             rest == IndexSections(obj, Tail(keys))
         IN  IF obj.val[programKey] = <<>> THEN rest
             ELSE IF ~ProgramFound(programKey) THEN rest
             ELSE << [programKey |-> programKey,
                      index |-> escapeHtml(programIndex(programKey)),
                      title |-> escapeHtml(programTitle(programKey)),
                      cards |-> PaperCards(obj.val[programKey])] >> \o rest

\* The page, given the result of groupByProgramme(papers).
buildPapersIndexPage(obj) ==
    [kind      |-> "papersIndex",
     canonical |-> CanonicalHref(SITE_URL \o <<"/">> \o papersDir \o <<"/">>),
     sections  |-> IndexSections(obj, OwnKeys(obj))]

\* papers.find(...) in place of papers.filter(...): the first match only.
FilterByProgramFirst(paperList, programKey) ==
    LET hits == SelectSeq(paperList, LAMBDA paper : paper.program = programKey)
    IN  IF hits = <<>> THEN <<>> ELSE <<Head(hits)>>

\* papers.filter(p => p.program === programKey)
RECURSIVE FilterByProgram(_, _)
FilterByProgram(paperList, programKey) ==
    IF paperList = <<>> THEN <<>>
    ELSE (IF Head(paperList).program = programKey THEN <<Head(paperList)>> ELSE <<>>)
         \o FilterByProgram(Tail(paperList), programKey)

\* The arrays a step works with, by the name of the binding that holds them;
\* the module-level `papers` is one of them.
ModuleArrays == [papers |-> papers]

\* const dst = [...src]: a new array with the elements of src.
Spread(arrays, src, dst) == (dst :> arrays[src]) @@ arrays

\* const dst = src.filter(p => p.program === programKey): a new array.
FilterInto(arrays, src, dst, programKey) ==
    (dst :> FilterByProgram(arrays[src], programKey)) @@ arrays

\* ref.sort(sortByDateDesc): sorts the array itself.
SortInPlace(arrays, ref) == [arrays EXCEPT ![ref] = ArraySort(@)]

\* papers.filter(...).sort(sortByDateDesc)
ProgrammePageArrays(programKey) ==
    SortInPlace(FilterInto(ModuleArrays, "papers", "programPapers", programKey),
                "programPapers")

\* null when programs[programKey] is falsy.
buildProgrammePage(programKey) ==
    IF ~ProgramFound(programKey) THEN [kind |-> "null"]
    ELSE LET programPapers == ProgrammePageArrays(programKey).programPapers
         IN  [kind       |-> "programme",
              programKey |-> programKey,
              canonical  |-> CanonicalHref(SITE_URL \o programmeUrl(programKey)),
              count      |-> Len(programPapers),
              cards      |-> PaperCards(programPapers)]

\* The page, given the result of paperCountByProgramme(); `counts[key] || 0`.
buildProgrammesIndexPage(cnt) ==
    LET keys == OwnKeys(programs)
    IN  [kind      |-> "programmesIndex",
         canonical |-> CanonicalHref(SITE_URL \o <<"/">> \o programmesDir \o <<"/">>),
         cards     |-> [p \in 1..Len(keys) |->
                          [href  |-> programmeUrl(keys[p]),
                           count |-> IF HasOwn(cnt, keys[p]) /\ ~cnt.val[keys[p]].nan
                                     THEN cnt.val[keys[p]].n ELSE 0]]]

\* ---------------------------------------------------------------------------
\* Sitemap and RSS feed
\* ---------------------------------------------------------------------------

staticPages ==
    << <<"/">>,
       <<"/","f","r","a","m","e","w","o","r","k">>,
       <<"/","p","a","p","e","r","s","/">>,
       <<"/","p","r","o","g","r","a","m","m","e","s","/">>,
       <<"/","p","e","o","p","l","e">>,
       <<"/","a","b","o","u","t">>,
       <<"/","c","o","n","t","a","c","t">> >>

buildSitemapNoProgrammes ==
    [kind |-> "sitemap",
     urls |-> [p \in 1..Len(staticPages) |-> SITE_URL \o staticPages[p]]
              \o [p \in 1..Len(papers) |-> SITE_URL \o paperUrl(papers[p])]]

buildSitemap ==
    LET keys == OwnKeys(programs)
    IN  [kind |-> "sitemap",
         urls |-> [p \in 1..Len(staticPages) |-> SITE_URL \o staticPages[p]]
                  \o [p \in 1..Len(papers) |-> SITE_URL \o paperUrl(papers[p])]
                  \o [p \in 1..Len(keys) |-> SITE_URL \o programmeUrl(keys[p])]]

\* papers.sort(sortByDateDesc) without the spread.
RSSFeedArraysInPlace ==
    Spread(SortInPlace(ModuleArrays, "papers"), "papers", "sortedPapers")

\* [...papers].sort(sortByDateDesc)
RSSFeedArrays ==
    SortInPlace(Spread(ModuleArrays, "papers", "sortedPapers"), "sortedPapers")

buildRSSFeed ==
    LET sortedPapers == RSSFeedArrays.sortedPapers
    IN  [kind  |-> "feed",
         items |-> [p \in 1..Len(sortedPapers) |->
                      [link       |-> SITE_URL \o paperUrl(sortedPapers[p]),
                       pubDate    |-> sortedPapers[p].date,
                       identifier |-> IF Truthy(sortedPapers[p].doi)
                                        THEN << <<"d","o","i",":">>
                                                  \o escapeXml(sortedPapers[p].doi) >>
                                        ELSE <<>>,
                       categories |-> IF sortedPapers[p].tags.defined
                                        THEN [t \in 1..Len(sortedPapers[p].tags.items) |->
                                                escapeXml(TagLabel(sortedPapers[p].tags.items[t]))]
                                        ELSE <<>>]]]

\* ---------------------------------------------------------------------------
\* Input data (papers.json)
\* ---------------------------------------------------------------------------

IdSet ==
    { <<"a","-","b">>, <<"i","n","d","e","x">>, <<"a","&","b">> }

DateSet ==
    { <<"2","0","2","4","-","0","1","-","0","1">>,
      <<"2","0","2","5","-","0","1","-","0","1">>,
      <<"2","0","2","5","-","0","3","-","1","4">> }

\* Values of a paper's `program` field: two string keys, an array-index key and
\* a name that Object.prototype defines.
ProgramKeySet ==
    { <<"p","1">>, <<"p","2">>, <<"2">>,
      <<"c","o","n","s","t","r","u","c","t","o","r">> }

\* The keys of `programs`, in the order papers.json lists them.
ProgramOrders ==
    { << <<"p","1">>, <<"p","2">> >>,
      << <<"p","2">>, <<"p","1">> >>,
      << <<"p","2">>, <<"2">> >>,
      << <<"p","1">> >> }

MkPrograms(order) ==
    [order |-> order,
     val   |-> [key \in {order[p] : p \in 1..Len(order)} |->
                  [index |-> <<"I">>, title |-> <<"T","-">> \o key]]]

\* A paper with its required fields; every optional field is absent.
MkPaper(id, authors, date, program) ==
    [id |-> id, authors |-> authors, date |-> date, program |-> program,
     abstract |-> undefined, doi |-> undefined, pdf |-> undefined,
     github |-> undefined, dashboard |-> undefined, tags |-> NoArray]

DefaultAuthors == << <<"A","."," ","S","m","i","t","h">> >>

PaperSet ==
    { MkPaper(id, DefaultAuthors, date, program) :
        id \in IdSet, date \in DateSet, program \in ProgramKeySet }

\* Lists of at most MaxPapers papers with pairwise different identifiers.
PaperLists ==
    { list \in UNION { [1..n -> PaperSet] : n \in 0..MaxPapers } :
        \A p, q \in 1..Len(list) : list[p].id = list[q].id => p = q }

NoObject == [order |-> <<>>, val |-> <<>>, threw |-> FALSE]

NoCounts == [order |-> <<>>, val |-> <<>>]

NoCall ==
    [fn |-> "none", text |-> <<>>, maxLen |-> 0, pair |-> <<>>, ret |-> <<>>]

\* An uncaught exception: what threw, and for a failed write the number of
\* that write in the sequence of writes of build().
Thrown(kind, step) == [kind |-> kind, step |-> step]

NoError == Thrown("none", 0)

\* ---------------------------------------------------------------------------
\* build()
\* ---------------------------------------------------------------------------

\* fs.writeFileSync(path, content): creates or replaces the file.
WriteFile(files, path, content) == (path :> content) @@ files

Init ==
    /\ papers \in PaperLists
    /\ programs \in { MkPrograms(order) : order \in ProgramOrders }
    /\ pc = "start"
    /\ idx = 0
    /\ dirs = {}
    /\ fs = <<>>
    /\ grouped = NoObject
    /\ counts = NoCounts
    /\ error = NoError
    /\ call = NoCall

\* ensureDir(papersDir); ensureDir(programmesDir)
EnsureDirs ==
    /\ pc = "start"
    /\ dirs' = dirs \cup {papersDir, programmesDir}
    /\ pc' = "paperPages"
    /\ idx' = 1
    /\ UNCHANGED <<papers, programs, fs, grouped, counts, call, error>>

\* One iteration of `for (const paper of papers)`.
WritePaperPage ==
    /\ pc = "paperPages"
    /\ idx <= Len(papers)
    /\ fs' = WriteFile(fs, PathJoin(papersDir, papers[idx].id \o DotHtml),
                       buildPaperPage(papers[idx]))
    /\ idx' = idx + 1
    /\ UNCHANGED <<papers, programs, pc, dirs, grouped, counts, call, error>>

\* buildPapersIndexPage() and its write; a TypeError thrown by groupByProgramme
\* is not caught anywhere and ends the process.
WritePapersIndex ==
    /\ pc = "paperPages"
    /\ idx > Len(papers)
    /\ grouped' = groupByProgramme(papers)
    /\ IF grouped'.threw
       THEN /\ pc' = "crashed"
            /\ error' = Thrown("TypeError", 0)
            /\ UNCHANGED <<fs, idx>>
       ELSE /\ fs' = WriteFile(fs, PathJoin(papersDir, IndexHtml),
                               buildPapersIndexPage(grouped'))
            /\ pc' = "programmePages"
            /\ idx' = 1
            /\ UNCHANGED error
    /\ UNCHANGED <<papers, programs, dirs, counts, call>>

\* One iteration of `for (const key of Object.keys(programs))`.
WriteProgrammePage ==
    /\ pc = "programmePages"
    /\ idx <= Len(OwnKeys(programs))
    /\ LET key  == OwnKeys(programs)[idx]
           html == buildProgrammePage(key)
       IN  fs' = IF html.kind # "null"
                 THEN WriteFile(fs, PathJoin(programmesDir, key \o DotHtml), html)
                 ELSE fs
    /\ papers' = ProgrammePageArrays(OwnKeys(programs)[idx]).papers
    /\ idx' = idx + 1
    /\ UNCHANGED <<programs, pc, dirs, grouped, counts, call, error>>

\* buildProgrammesIndexPage() and its write.
WriteProgrammesIndex ==
    /\ pc = "programmePages"
    /\ idx > Len(OwnKeys(programs))
    /\ counts' = paperCountByProgramme
    /\ fs' = WriteFile(fs, PathJoin(programmesDir, IndexHtml),
                       buildProgrammesIndexPage(counts'))
    /\ pc' = "sitemap"
    /\ UNCHANGED <<papers, programs, idx, dirs, grouped, call, error>>

WriteSitemap ==
    /\ pc = "sitemap"
    /\ fs' = WriteFile(fs, SitemapXml, buildSitemap)
    /\ pc' = "feed"
    /\ UNCHANGED <<papers, programs, idx, dirs, grouped, counts, call, error>>

WriteFeed ==
    /\ pc = "feed"
    /\ fs' = WriteFile(fs, FeedXml, buildRSSFeed)
    /\ papers' = RSSFeedArrays.papers
    /\ pc' = "done"
    /\ UNCHANGED <<programs, idx, dirs, grouped, counts, call, error>>

Next ==
    \/ EnsureDirs
    \/ WritePaperPage
    \/ WritePapersIndex
    \/ WriteProgrammePage
    \/ WriteProgrammesIndex
    \/ WriteSitemap
    \/ WriteFeed

Spec == Init /\ [][Next]_vars

\* ---------------------------------------------------------------------------
\* The formatting utilities, applied to arguments drawn from bounded sets
\* ---------------------------------------------------------------------------

EscapeChars == {"a", "&", "<", ">", "\"", "'"}

AbstractChars == {"a", " ", "."}

Strings(chars, maxLength) == UNION { [1..n -> chars] : n \in 0..maxLength }

BibIdSet == { <<"a","-","b">>, <<"a","_","b">>, <<"a","b">> }

BibAuthorSet ==
    { << <<"A","."," ","S","m","i","t","h">> >>,
      << <<"B","o"," ","S","M","I","T","H">>, <<"C"," ","L","e","e">> >>,
      << <<"L","e","e">> >> }

BibPaperSet ==
    { MkPaper(id, authors, date, <<"p","1">>) :
        id \in BibIdSet, authors \in BibAuthorSet, date \in DateSet }

FmtInit ==
    /\ papers = <<>>
    /\ programs = MkPrograms(<< <<"p","1">> >>)
    /\ pc = "idle"
    /\ idx = 0
    /\ dirs = {}
    /\ fs = <<>>
    /\ grouped = NoObject
    /\ counts = NoCounts
    /\ error = NoError
    /\ \/ \E text \in Strings(EscapeChars, MaxEscLen) :
             call = [NoCall EXCEPT !.fn = "escape?", !.text = text]
       \/ \E text \in Strings(AbstractChars, MaxLen), maxLen \in 0..MaxLimit :
             call = [NoCall EXCEPT !.fn = "truncateAbstract?", !.text = text,
                                   !.maxLen = maxLen]
       \/ \E a, b \in BibPaperSet :
             call = [NoCall EXCEPT !.fn = "bibtexKey?", !.pair = <<a, b>>]

ApplyEscapeHtml ==
    /\ call.fn = "escape?"
    /\ call' = [call EXCEPT !.fn = "escapeHtml", !.ret = <<escapeHtml(call.text)>>]
    /\ UNCHANGED <<papers, programs, pc, idx, dirs, fs, grouped, counts, error>>

ApplyEscapeXml ==
    /\ call.fn = "escape?"
    /\ call' = [call EXCEPT !.fn = "escapeXml", !.ret = <<escapeXml(call.text)>>]
    /\ UNCHANGED <<papers, programs, pc, idx, dirs, fs, grouped, counts, error>>

ApplyTruncateAbstract ==
    /\ call.fn = "truncateAbstract?"
    /\ call' = [call EXCEPT !.fn = "truncateAbstract",
                            !.ret = <<truncateAbstract(call.text, call.maxLen)>>]
    /\ UNCHANGED <<papers, programs, pc, idx, dirs, fs, grouped, counts, error>>

\* bibtexKey of each of two paper records.
ApplyBibtexKey ==
    /\ call.fn = "bibtexKey?"
    /\ call' = [call EXCEPT !.fn = "bibtexKey",
                            !.ret = <<bibtexKey(call.pair[1]), bibtexKey(call.pair[2])>>]
    /\ UNCHANGED <<papers, programs, pc, idx, dirs, fs, grouped, counts, error>>

FmtNext ==
    \/ ApplyEscapeHtml
    \/ ApplyEscapeXml
    \/ ApplyTruncateAbstract
    \/ ApplyBibtexKey

FmtSpec == FmtInit /\ [][FmtNext]_vars

\* ---------------------------------------------------------------------------
\* Properties
\* ---------------------------------------------------------------------------

\* Calendar order of two ISO dates, read off the digits from the left.
RECURSIVE IsoLeq(_, _)
IsoLeq(d1, d2) ==
    IF d1 = <<>> \/ d2 = <<>> THEN TRUE
    ELSE IF Head(d1) = Head(d2) THEN IsoLeq(Tail(d1), Tail(d2))
    ELSE DigitValue(Head(d1)) < DigitValue(Head(d2))

\* Newest first: no element is older than its successor.
NewestFirst(dates) ==
    \A p \in 1..(Len(dates) - 1) : IsoLeq(dates[p + 1], dates[p])

DatesOf(list) == [p \in 1..Len(list) |-> list[p].date]

Configured(key) == key \in DOMAIN programs.val

PapersIndexBuilt == pc \in {"programmePages", "sitemap", "feed", "done"}

CountsBuilt == pc \in {"sitemap", "feed", "done"}

PapersPath(id) == <<"p","a","p","e","r","s","/">> \o id \o <<".","h","t","m","l">>

ProgrammesPath(key) ==
    <<"p","r","o","g","r","a","m","m","e","s","/">> \o key \o <<".","h","t","m","l">>

PaperHref(id) ==
    <<"h","t","t","p","s",":","/","/","s","y","s","t","e","m","s",".","a","c",
      "/","p","a","p","e","r","s","/">> \o id

\* C1: in every programme-grouped listing the papers of a group are in
\* non-increasing date order; the groups of groupByProgramme that belong to
\* configured programmes come in the key order of `programs`, and every group
\* of a programme key that is not configured comes after all of them.
C1_GroupedListingOrder ==
    /\ PapersIndexBuilt =>
         LET keys == OwnKeys(grouped)
         IN  /\ \A key \in DOMAIN grouped.val : NewestFirst(DatesOf(grouped.val[key]))
             /\ SelectSeq(keys, Configured) = OwnKeys(programs)
             /\ \A p, q \in 1..Len(keys) :
                  ~Configured(keys[p]) /\ Configured(keys[q]) => q < p
    /\ \A key \in DOMAIN programs.val :
         ProgrammesPath(key) \in DOMAIN fs
            => NewestFirst(DatesOf(fs[ProgrammesPath(key)].cards))

\* A listing that the date sort had to reorder was built.
C1_Witness ==
    /\ PapersIndexBuilt
    /\ \E key \in DOMAIN grouped.val :
         /\ Len(grouped.val[key]) >= 2
         /\ grouped.val[key] # FilterByProgram(papers, key)

\* C2: truncateAbstract(truncateAbstract(t, n), n) = truncateAbstract(t, n) for
\* every text t and limit n, and a text of length exactly n is returned
\* unchanged, without an ellipsis.
C2_TruncateIdempotent ==
    call.fn = "truncateAbstract" =>
        /\ truncateAbstract(call.ret[1], call.maxLen) = call.ret[1]
        /\ Len(call.text) = call.maxLen => call.ret[1] = call.text

\* C2, amended: a result of truncateAbstract that is no longer than the limit
\* is returned unchanged when truncated again with the same limit, and a text
\* of length exactly n is returned unchanged, without an ellipsis.
C2_TruncateIdempotentWithinLimit ==
    call.fn = "truncateAbstract" =>
        /\ Len(call.ret[1]) <= call.maxLen
              => truncateAbstract(call.ret[1], call.maxLen) = call.ret[1]
        /\ Len(call.text) = call.maxLen => call.ret[1] = call.text

\* A text was cut at a word boundary, and the ellipsis-terminated result fits
\* the limit.
C2_Witness ==
    /\ call.fn = "truncateAbstract"
    /\ Len(call.text) > call.maxLen
    /\ Len(call.ret[1]) <= call.maxLen
    /\ Len(call.ret[1]) > 3
    /\ SubSeq(call.ret[1], Len(call.ret[1]) - 2, Len(call.ret[1])) = <<".",".",".">>

\* C3: bibtexKey depends on the paper record alone, and two papers with the
\* same first-author surname and the same year but different identifiers get
\* different keys.
C3_BibtexKeysDistinct ==
    call.fn = "bibtexKey" =>
        LET a == call.pair[1]
            b == call.pair[2]
        IN  /\ a = b => call.ret[1] = call.ret[2]
            /\ ( /\ LastWord(a.authors[1]) = LastWord(b.authors[1])
                 /\ SubSeq(a.date, 1, 4) = SubSeq(b.date, 1, 4)
                 /\ a.id # b.id )
               => call.ret[1] # call.ret[2]

\* The files a complete build is to leave under PUBLIC.
ExpectedFiles ==
    { PapersPath(papers[p].id) : p \in 1..Len(papers) }
    \cup { PapersPath(<<"i","n","d","e","x">>) }
    \cup { ProgrammesPath(key) : key \in DOMAIN programs.val }
    \cup { ProgrammesPath(<<"i","n","d","e","x">>),
           <<"s","i","t","e","m","a","p",".","x","m","l">>,
           <<"f","e","e","d",".","x","m","l">> }

\* C4: after a complete build the output tree holds exactly the paper pages,
\* papers/index.html, the programme pages, programmes/index.html, sitemap.xml
\* and feed.xml, and papers/<id>.html holds the detail page of paper <id>, for
\* every paper of the input.
C4_OutputTree ==
    pc = "done" =>
        /\ DOMAIN fs = ExpectedFiles
        /\ \A p \in 1..Len(papers) :
             /\ fs[PapersPath(papers[p].id)].kind = "paper"
             /\ fs[PapersPath(papers[p].id)].id = papers[p].id

HtmlUnsafe == {"&", "<", ">", "\"", "'"}

HasUnsafe(str) == \E p \in 1..Len(str) : str[p] \in HtmlUnsafe

\* The papers whose page the loop of build() has written, while it runs.
PagesWritten == IF pc = "paperPages" THEN 1..(idx - 1) ELSE {}

PapersWithKey(key) == Cardinality({ p \in 1..Len(papers) : papers[p].program = key })

\* C6: a paper whose programme key is not configured is tolerated, whatever
\* the key: no step of the build raises an error, groupByProgramme puts the
\* paper in a bucket keyed by that value, no count of paperCountByProgramme
\* includes it, and the programme link of its detail page has the raw key as
\* title and an empty index.
C6_UnknownProgrammeTolerated ==
    /\ pc # "crashed"
    /\ \A p \in 1..Len(papers) :
         ~Configured(papers[p].program) =>
            /\ PapersIndexBuilt =>
                 /\ papers[p].program \in DOMAIN grouped.val
                 /\ \E q \in 1..Len(grouped.val[papers[p].program]) :
                       grouped.val[papers[p].program][q] = papers[p]
            /\ CountsBuilt => papers[p].program \notin DOMAIN counts.val
            /\ p \in PagesWritten =>
                 /\ fs[PapersPath(papers[p].id)].programme.title
                       = escapeHtml(papers[p].program)
                 /\ fs[PapersPath(papers[p].id)].programme.index = <<>>
    /\ CountsBuilt =>
         \A key \in DOMAIN counts.val : counts.val[key] = Num(PapersWithKey(key))

\* C7: the RSS feed has exactly one item per paper of the input, and its items
\* are in non-increasing publication-date order, whatever the input order.
C7_FeedItemsNewestFirst ==
    pc = "done" =>
        LET items == fs[<<"f","e","e","d",".","x","m","l">>].items
        IN  /\ Len(items) = Len(papers)
            /\ \A p \in 1..Len(papers) :
                 Cardinality({ q \in 1..Len(items) :
                                 /\ items[q].link = PaperHref(papers[p].id)
                                 /\ items[q].pubDate = papers[p].date }) = 1
            /\ NewestFirst([q \in 1..Len(items) |-> items[q].pubDate])

\* The feed was written for an input that lists an older paper before a newer
\* one.
C7_Witness ==
    /\ pc = "done"
    /\ \E p, q \in 1..Len(papers) :
         p < q /\ ~IsoLeq(papers[q].date, papers[p].date)

\* C8: the sitemap has 7 + (number of papers) + (number of configured
\* programmes) <url> entries.
C8_SitemapEntryCount ==
    pc \in {"feed", "done"} =>
        Len(fs[<<"s","i","t","e","m","a","p",".","x","m","l">>].urls)
            = 7 + Len(papers) + Cardinality(DOMAIN programs.val)

\* The sitemap was written for an input with papers and two programmes.
C8_Witness ==
    /\ pc \in {"feed", "done"}
    /\ Len(papers) >= 1
    /\ Cardinality(DOMAIN programs.val) >= 2

\* The sum of the counts of the given keys.
RECURSIVE SumCounts(_, _)
SumCounts(obj, keys) ==
    IF keys = {} THEN 0
    ELSE LET key == CHOOSE k \in keys : TRUE
         IN  obj.val[key].n + SumCounts(obj, keys \ {key})

XmlEntities ==
    { <<"&","a","m","p",";">>, <<"&","l","t",";">>, <<"&","g","t",";">>,
      <<"&","q","u","o","t",";">>, <<"&","a","p","o","s",";">> }

HtmlEntities ==
    { <<"&","a","m","p",";">>, <<"&","l","t",";">>, <<"&","g","t",";">>,
      <<"&","q","u","o","t",";">>, <<"&","#","0","3","9",";">> }

\* Every & of str starts one of the entities, and no other unsafe character
\* occurs in it.
WellEscaped(str, entities) ==
    \A p \in 1..Len(str) :
        /\ str[p] \notin {"<", ">", "\"", "'"}
        /\ str[p] = "&" =>
             \E e \in entities :
                /\ p + Len(e) - 1 <= Len(str)
                /\ SubSeq(str, p, p + Len(e) - 1) = e

\* The input rendered character by character.
RECURSIVE RenderEach(_, _)
RenderEach(str, apostrophe) ==
    IF str = <<>> THEN <<>>
    ELSE (CASE Head(str) = "&"  -> <<"&","a","m","p",";">>
            [] Head(str) = "<"  -> <<"&","l","t",";">>
            [] Head(str) = ">"  -> <<"&","g","t",";">>
            [] Head(str) = "\"" -> <<"&","q","u","o","t",";">>
            [] Head(str) = "'"  -> apostrophe
            [] OTHER -> <<Head(str)>>)
         \o RenderEach(Tail(str), apostrophe)

\* C10: the output of escapeHtml has no raw < > " ' and each & in it starts
\* one of &amp; &lt; &gt; &quot; &#039;; escapeXml gives the same output except
\* that each ' of the input is rendered &apos; instead of &#039;.
C10_EscapedOutput ==
    /\ call.fn = "escapeHtml" =>
         /\ WellEscaped(call.ret[1], HtmlEntities)
         /\ call.ret[1] = RenderEach(call.text, <<"&","#","0","3","9",";">>)
    /\ call.fn = "escapeXml" =>
         /\ WellEscaped(call.ret[1], XmlEntities)
         /\ call.ret[1] = RenderEach(call.text, <<"&","a","p","o","s",";">>)

\* escapeHtml was applied to a string that holds each of & < > " '.
C10_Witness ==
    /\ call.fn = "escapeHtml"
    /\ \A c \in HtmlUnsafe : \E p \in 1..Len(call.text) : call.text[p] = c

\* ---------------------------------------------------------------------------
\* Optional paper fields: one paper, each optional field absent, empty or set
\* ---------------------------------------------------------------------------

OptStrings == { undefined, <<>>, <<"x">> }

OptTagLists ==
    { NoArray, Array(<<>>), Array(<< <<"t">> >>), Array(<< <<"t">>, <<"u">> >>) }

OptPaperSet ==
    { [MkPaper(<<"a","-","b">>, DefaultAuthors, <<"2","0","2","4","-","0","1","-","0","1">>,
               <<"p","1">>)
         EXCEPT !.abstract = abstract, !.doi = doi, !.pdf = pdf, !.github = github,
                !.dashboard = dashboard, !.tags = tagList] :
        abstract \in OptStrings, doi \in OptStrings, pdf \in OptStrings,
        github \in OptStrings, dashboard \in OptStrings, tagList \in OptTagLists }

PageInit ==
    /\ \E paper \in OptPaperSet : papers = <<paper>>
    /\ programs = MkPrograms(<< <<"p","1">> >>)
    /\ pc = "idle"
    /\ idx = 0
    /\ dirs = {}
    /\ fs = <<>>
    /\ grouped = NoObject
    /\ counts = NoCounts
    /\ error = NoError
    /\ call = [NoCall EXCEPT !.fn = "page?"]

ApplyBuildPaperPage ==
    /\ call.fn = "page?"
    /\ call' = [call EXCEPT !.fn = "buildPaperPage", !.ret = <<buildPaperPage(papers[1])>>]
    /\ UNCHANGED <<papers, programs, pc, idx, dirs, fs, grouped, counts, error>>

ApplyBuildRSSFeed ==
    /\ call.fn = "page?"
    /\ call' = [call EXCEPT !.fn = "buildRSSFeed", !.ret = <<buildRSSFeed>>]
    /\ papers' = RSSFeedArrays.papers
    /\ UNCHANGED <<programs, pc, idx, dirs, fs, grouped, counts, error>>

PageNext == ApplyBuildPaperPage \/ ApplyBuildRSSFeed

PageSpec == PageInit /\ [][PageNext]_vars

\* A string field is present when the record gives it a (non-empty) value.
FieldPresent(v) == v # undefined /\ v # <<>>

ButtonLabels(buttons) == [b \in 1..Len(buttons) |-> buttons[b].label]

ExpectedButtonLabels(paper) ==
    (IF FieldPresent(paper.pdf) THEN <<"Download PDF">> ELSE <<>>)
    \o (IF FieldPresent(paper.doi) THEN <<"DOI">> ELSE <<>>)
    \o (IF FieldPresent(paper.github) THEN <<"GitHub">> ELSE <<>>)
    \o (IF FieldPresent(paper.dashboard) THEN <<"Dashboard">> ELSE <<>>)

\* C11: whatever optional fields a paper lacks, its detail page and its feed
\* item are built; the page has one abstract section iff the paper has an
\* abstract and one tags section iff it has at least one tag, its action
\* buttons are those of the fields it has among pdf, doi, github, dashboard,
\* in that order, and the feed item has one DOI identifier iff it has a doi.
C11_OptionalFields ==
    /\ call.fn = "buildPaperPage" =>
         LET page == call.ret[1]
             paper == papers[1]
         IN  /\ page.kind = "paper"
             /\ Len(page.abstract) = (IF FieldPresent(paper.abstract) THEN 1 ELSE 0)
             /\ Len(page.tags) =
                  (IF paper.tags.defined /\ Len(paper.tags.items) >= 1 THEN 1 ELSE 0)
             /\ Len(page.tags) = 1 => Len(page.tags[1]) = Len(paper.tags.items)
             /\ ButtonLabels(page.actions) = ExpectedButtonLabels(paper)
    /\ call.fn = "buildRSSFeed" =>
         LET feed == call.ret[1]
         IN  /\ feed.kind = "feed"
             /\ Len(feed.items) = 1
             /\ Len(feed.items[1].identifier) =
                  (IF FieldPresent(papers[1].doi) THEN 1 ELSE 0)

\* A page was built for a paper that has a pdf and a doi and tags but no
\* abstract, no github and no dashboard.
C11_Witness ==
    /\ call.fn = "buildPaperPage"
    /\ FieldPresent(papers[1].pdf)
    /\ FieldPresent(papers[1].doi)
    /\ papers[1].abstract = undefined
    /\ papers[1].github = undefined
    /\ papers[1].dashboard = undefined
    /\ papers[1].tags.defined
    /\ Len(papers[1].tags.items) = 2
    /\ Len(call.ret[1].actions) = 2

\* ---------------------------------------------------------------------------
\* Papers index
\* ---------------------------------------------------------------------------

HasPapers(key) == PapersWithKey(key) > 0

PapersIndexPage == fs[PapersPath(<<"i","n","d","e","x">>)]

SectionKeys(sections) == [p \in 1..Len(sections) |-> sections[p].programKey]

\* C12: the sections of the papers index are those of the configured
\* programmes that have at least one paper, in the key order of `programs`;
\* the section of a programme has exactly one card per paper of that programme;
\* a configured programme without papers and a bucket of a key that is not
\* configured have no section.
C12_PapersIndexSections ==
    PapersIndexBuilt =>
        LET sections == PapersIndexPage.sections
        IN  /\ SectionKeys(sections) = SelectSeq(OwnKeys(programs), HasPapers)
            /\ \A p \in 1..Len(sections) :
                 LET key == sections[p].programKey
                     cards == sections[p].cards
                 IN  /\ Len(cards) = PapersWithKey(key)
                     /\ { cards[c].href : c \in 1..Len(cards) }
                          = { paperUrl(papers[q]) :
                                q \in { r \in 1..Len(papers) : papers[r].program = key } }

\* The index was built from a configured programme with papers, a configured
\* programme without papers and a non-empty bucket of a key not configured.
C12_Witness ==
    /\ PapersIndexBuilt
    /\ Len(PapersIndexPage.sections) >= 1
    /\ \E key \in DOMAIN programs.val : grouped.val[key] = <<>>
    /\ \E key \in DOMAIN grouped.val : ~Configured(key) /\ grouped.val[key] # <<>>

\* ---------------------------------------------------------------------------
\* build() with failing file-system calls, from the load of papers.json on
\* ---------------------------------------------------------------------------

\* The paths build() writes, in the order of its writeFileSync calls.
BuildSequence ==
    [p \in 1..Len(papers) |-> PathJoin(papersDir, papers[p].id \o DotHtml)]
    \o << PathJoin(papersDir, IndexHtml) >>
    \o [p \in 1..Len(OwnKeys(programs)) |->
          PathJoin(programmesDir, OwnKeys(programs)[p] \o DotHtml)]
    \o << PathJoin(programmesDir, IndexHtml), SitemapXml, FeedXml >>

\* The number, in BuildSequence, of the write build() is about to make.
WriteStep ==
    CASE pc = "paperPages"     -> idx
      [] pc = "programmePages" -> Len(papers) + 1 + idx
      [] pc = "sitemap"        -> Len(papers) + Len(OwnKeys(programs)) + 3
      [] pc = "feed"           -> Len(papers) + Len(OwnKeys(programs)) + 4

\* What a failed writeFileSync may leave at its path.
PartialFile == [kind |-> "partial"]

\* Inputs of the failure runs: the dates play no part in them.
FailPaperLists ==
    { list \in PaperLists :
        \A p \in 1..Len(list) : list[p].date = <<"2","0","2","4","-","0","1","-","0","1">> }

FailInit ==
    /\ papers = <<>>
    /\ programs = MkPrograms(<<>>)
    /\ pc = "load"
    /\ idx = 0
    /\ dirs = {}
    /\ fs = <<>>
    /\ grouped = NoObject
    /\ counts = NoCounts
    /\ call = NoCall
    /\ error = NoError

\* JSON.parse(fs.readFileSync(DATA_FILE)) returns the data; build() is called.
LoadData ==
    /\ pc = "load"
    /\ \E list \in FailPaperLists, order \in ProgramOrders :
         /\ papers' = list
         /\ programs' = MkPrograms(order)
    /\ pc' = "start"
    /\ UNCHANGED <<idx, dirs, fs, grouped, counts, call, error>>

\* readFileSync or JSON.parse throws at module level: build() is never called.
LoadFails ==
    /\ pc = "load"
    /\ pc' = "crashed"
    /\ error' = Thrown("load", 0)
    /\ UNCHANGED <<papers, programs, idx, dirs, fs, grouped, counts, call>>

\* mkdirSync throws in the first or in the second ensureDir.
EnsureDirFails ==
    /\ pc = "start"
    /\ \E made \in { {}, {papersDir} } : dirs' = dirs \cup made
    /\ pc' = "crashed"
    /\ error' = Thrown("mkdir", 0)
    /\ UNCHANGED <<papers, programs, idx, fs, grouped, counts, call>>

\* A try/catch around the write that leaves build() where it is.
WriteFailsRetried ==
    /\ pc \in {"paperPages", "programmePages", "sitemap", "feed"}
    /\ pc = "paperPages" /\ idx > Len(papers) => ~groupByProgramme(papers).threw
    /\ \E partial \in BOOLEAN :
         fs' = IF partial THEN WriteFile(fs, BuildSequence[WriteStep], PartialFile) ELSE fs
    /\ error' = Thrown("write", WriteStep)
    /\ UNCHANGED <<papers, programs, pc, idx, dirs, grouped, counts, call>>

\* The writeFileSync build() is about to make throws; nothing catches it. The
\* file is left untouched or with partial content.
WriteFails ==
    /\ pc \in {"paperPages", "programmePages", "sitemap", "feed"}
    /\ pc = "paperPages" /\ idx > Len(papers) => ~groupByProgramme(papers).threw
    /\ \E partial \in BOOLEAN :
         fs' = IF partial THEN WriteFile(fs, BuildSequence[WriteStep], PartialFile) ELSE fs
    /\ pc' = "crashed"
    /\ error' = Thrown("write", WriteStep)
    /\ UNCHANGED <<papers, programs, idx, dirs, grouped, counts, call>>

FailNext ==
    \/ LoadData
    \/ LoadFails
    \/ EnsureDirs
    \/ EnsureDirFails
    \/ WritePaperPage
    \/ WritePapersIndex
    \/ WriteProgrammePage
    \/ WriteProgrammesIndex
    \/ WriteSitemap
    \/ WriteFeed
    \/ WriteFails

FailSpec == FailInit /\ [][FailNext]_vars

PathsUpTo(step) == { BuildSequence[j] : j \in 1..step }

\* C13: after a failed load of papers.json no directory and no file exists and
\* the process has ended; after a failed mkdir no file exists and the process
\* has ended; after a failed write the process has ended without reporting
\* completion, every earlier write of the build sequence was made and no file
\* of a later write exists.
C13_FailureIsFatal ==
    /\ error.kind = "load" => pc = "crashed" /\ dirs = {} /\ fs = <<>>
    /\ error.kind = "mkdir" => pc = "crashed" /\ fs = <<>>
    /\ error.kind = "write" =>
         /\ pc = "crashed"
         /\ DOMAIN fs \subseteq PathsUpTo(error.step)
         /\ PathsUpTo(error.step - 1) \subseteq DOMAIN fs
    /\ pc = "done" => error = NoError

\* The write of the papers index failed after two paper pages were written.
C13_Witness ==
    /\ error.kind = "write"
    /\ Len(papers) = 2
    /\ error.step = 3
    /\ Cardinality(DOMAIN fs) >= 2

\* ---------------------------------------------------------------------------
\* The loaded list
\* ---------------------------------------------------------------------------

\* C14: no step of build() changes `papers`: after every step the list holds
\* the records it held before the step, in the same order.
C14_PapersUnchanged == [][papers' = papers]_vars

\* The build is complete, at least one programme page listed two papers in an
\* order other than their order in `papers`, and the feed did so too.
C14_Witness ==
    /\ pc = "done"
    /\ ArraySort(papers) # papers
    /\ \E key \in DOMAIN programs.val :
         ArraySort(FilterByProgram(papers, key)) # FilterByProgram(papers, key)

\* ---------------------------------------------------------------------------
\* Paper counts of a programme
\* ---------------------------------------------------------------------------

ProgrammePage(key) == fs[ProgrammesPath(key)]

ProgrammesIndexPage == fs[ProgrammesPath(<<"i","n","d","e","x">>)]

\* C15: for every configured programme key the count on its card of the
\* programmes index, the number of paper cards (and the count label) of its
\* own page and the length of its bucket in groupByProgramme are the same
\* number.
C15_CountsAgree ==
    CountsBuilt =>
        LET keys == OwnKeys(programs)
        IN  \A p \in 1..Len(keys) :
              /\ ProgrammesIndexPage.cards[p].href = programmeUrl(keys[p])
              /\ ProgrammesIndexPage.cards[p].count = Len(ProgrammePage(keys[p]).cards)
              /\ ProgrammePage(keys[p]).count = Len(ProgrammePage(keys[p]).cards)
              /\ Len(ProgrammePage(keys[p]).cards) = Len(grouped.val[keys[p]])

\* The three numbers were computed for a programme with two papers while
\* another configured programme had none.
C15_Witness ==
    /\ CountsBuilt
    /\ \E key \in DOMAIN programs.val : Len(grouped.val[key]) = 2
    /\ \E key \in DOMAIN programs.val : Len(ProgrammePage(key).cards) = 0

====
